---- MODULE Spec2Model ----
(***************************************************************************)
(* A model of src/app.py, the Streamlit page "Gestao de Carreira           *)
(* Inteligente": the transcript pipeline of tab 1 (load_data,              *)
(* categorizar_area, the filter, the credit/IRA aggregation, the Top 10)   *)
(* and the competency assessment of tab 2 (st.session_state.ratings, the   *)
(* sliders, create_career_assessment, the strengths).                      *)
(*                                                                         *)
(* Numbers.  Nota and Horas are integers.  Ratings, benchmark values and   *)
(* differentials are in tenths (3.8 is 38, the 0.5 threshold is 5).        *)
(* '% Acumulado' is in hundredths of a percent (16.67 is 1667).  The IRA   *)
(* is the exact fraction num/den.  A cell of a numeric column is a record  *)
(* [k, v]: k = "num" with the value v, k = "nan" (missing, or 0/0),        *)
(* k = "text" (a cell to_numeric cannot parse), k = "inf"/"-inf" (x/0).    *)
(* Strings that the code inspects are sequences of one-character strings.  *)
(***************************************************************************)
EXTENDS Integers, Sequences, FiniteSets, TLC

VARIABLES
    csv_ok,          \* historico.csv can be read with its expected columns
    raw,             \* the rows of historico.csv as pd.read_csv gives them
    started,         \* main() has run in this session (or compare was called)
    df,              \* load_data()'s (cached) DataFrame
    anos,            \* the "Selecione os anos" multiselect
    areas,           \* the "Selecione as areas" multiselect
    view,            \* what tab 1 shows: "none", "no_data", "no_match", "shown"
    df_acumulado,    \* the per-year frame: Ano, Creditos, Acumulado, Pct
    total_creditos,  \* the "Creditos Totais" metric
    ira,             \* the "IRA Atual" metric, as a fraction
    top_disciplinas, \* the Top 10 table
    ratings,         \* st.session_state.ratings (or compare's argument): <<[k, v]>>
    sliders,         \* the slider widgets' state, by competency
    moves,           \* slider moves made so far in this session
    df_comparison,   \* create_career_assessment's third result
    strengths        \* the rows of df_comparison with Diferencial > 0.5

tab1vars == <<csv_ok, raw, df, anos, areas, view, df_acumulado, total_creditos,
              ira, top_disciplinas>>
tab2vars == <<ratings, sliders, moves, df_comparison, strengths>>
vars == <<started, tab1vars, tab2vars>>

----------------------------------------------------------------------------
(* Cells of numeric columns *)

Num(n) == [k |-> "num", v |-> n]
NaN == [k |-> "nan", v |-> 0]
Text == [k |-> "text", v |-> 0]
PosInf == [k |-> "inf", v |-> 0]
NegInf == [k |-> "-inf", v |-> 0]

\* pd.to_numeric(col, errors='coerce'): what does not parse becomes NaN
ToNumeric(c) == IF c.k = "num" THEN c ELSE NaN

\* .fillna(d)
FillNa(c, d) == IF c.k = "nan" THEN Num(d) ELSE c

----------------------------------------------------------------------------
(* Strings *)

\* The cell of a text column that is missing: str() of it is 'nan'.
MissingText == <<"NaN">>

\* str(row.get(col, ''))
Str(c) == IF c = MissingText THEN <<"n", "a", "n">> ELSE c

UpperChar(c) ==
    CASE c = "a" -> "A" [] c = "c" -> "C" [] c = "e" -> "E" [] c = "f" -> "F"
      [] c = "g" -> "G" [] c = "i" -> "I" [] c = "l" -> "L" [] c = "m" -> "M"
      [] c = "n" -> "N" [] c = "o" -> "O" [] c = "r" -> "R" [] c = "s" -> "S"
      [] c = "t" -> "T" [] c = "u" -> "U" [] c = "b" -> "B" [] c = "x" -> "X"
      [] c = "á" -> "Á" [] c = "í" -> "Í" [] c = "ó" -> "Ó"
      [] OTHER -> c

\* str.upper()
Upper(s) == [i \in 1..Len(s) |-> UpperChar(s[i])]

\* s.startswith(key)
StartsWith(s, key) == Len(s) >= Len(key) /\ SubSeq(s, 1, Len(key)) = key

\* key in s
Contains(key, s) ==
    \E i \in 0..(Len(s) - Len(key)) : SubSeq(s, i + 1, i + Len(key)) = key

----------------------------------------------------------------------------
(* categorizar_area *)

\* The dict literal, in insertion order.
mapeamento ==
    << [key |-> <<"M", "A", "T">>, value |-> "Matemática"],
       [key |-> <<"F", "I", "S">>, value |-> "Física"],
       [key |-> <<"C", "E", "L">>, value |-> "Eletrônica"],
       [key |-> <<"E", "N", "E">>, value |-> "Sistemas de Potência"],
       [key |-> <<"C", "Á", "L", "C", "U", "L", "O">>, value |-> "Matemática"],
       [key |-> <<"F", "Í", "S", "I", "C", "A">>, value |-> "Física"],
       [key |-> <<"L", "A", "B", "O", "R", "A", "T", "Ó", "R", "I", "O">>,
        value |-> "Práticas"] >>

\* Mutant of KeyMatches: the key is tried on the code alone.
KeyMatches_CodeOnly(i, codigo, disciplina) == StartsWith(codigo, mapeamento[i].key)

\* The condition of the loop's if, for the i-th item of mapeamento.
KeyMatches(i, codigo, disciplina) ==
    \/ StartsWith(codigo, mapeamento[i].key)
    \/ Contains(mapeamento[i].key, disciplina)

RECURSIVE FirstMatch(_, _, _)
\* The for loop from item i on: the value of the first item whose test holds.
FirstMatch(i, codigo, disciplina) ==
    IF i > Len(mapeamento) THEN "Outras"
    ELSE IF KeyMatches(i, codigo, disciplina) THEN mapeamento[i].value
    ELSE FirstMatch(i + 1, codigo, disciplina)

categorizar_area(row) ==
    LET codigo == Upper(Str(row.Codigo))
        disciplina == Upper(Str(row.Disciplina))
    IN  FirstMatch(1, codigo, disciplina)

----------------------------------------------------------------------------
(* load_data *)

HorasPorCredito == 15

\* Mutant of Creditos: rounds up instead of down.
Creditos_RoundUp(horas) == (horas + HorasPorCredito - 1) \div HorasPorCredito

\* (df['Horas'] // 15).astype(int), on one value: Python's floor division
Creditos(horas) == horas \div HorasPorCredito

\* One row of the DataFrame load_data returns; index is its RangeIndex label.
NormalizeRow(r, i) ==
    LET nota == FillNa(ToNumeric(r.Nota), 0).v
        horas == FillNa(ToNumeric(r.Horas), 0).v
    IN  [index |-> i - 1, Codigo |-> r.Codigo, Disciplina |-> r.Disciplina,
         Ano |-> r.Ano, Nota |-> nota, Horas |-> horas,
         Area |-> categorizar_area(r), Creditos |-> Creditos(horas)]

\* load_data(): the except branch returns an empty DataFrame.
load_data(ok, rows) ==
    IF ok THEN [i \in 1..Len(rows) |-> NormalizeRow(rows[i], i)] ELSE <<>>

----------------------------------------------------------------------------
(* Tab 1: filter, aggregation, Top 10 *)

\* df[col].unique(), as the set of its values
Unique(rows, col) == {rows[i][col] : i \in 1..Len(rows)}

\* Mutant of KeepRow: the area selection is ignored.
KeepRow_AnoOnly(row, a, s) == row.Ano \in a

\* df[df['Ano'].isin(anos) & df['Area'].isin(areas)]
KeepRow(row, a, s) == row.Ano \in a /\ row.Area \in s

Filter(rows, a, s) == LET Keep(row) == KeepRow(row, a, s) IN SelectSeq(rows, Keep)

RECURSIVE SortedSeq(_)
\* The group keys of groupby('Ano'), which sorts them ascending.
SortedSeq(S) ==
    IF S = {} THEN <<>>
    ELSE LET m == CHOOSE x \in S : \A y \in S : x <= y
         IN  <<m>> \o SortedSeq(S \ {m})

RECURSIVE SumOf(_, _)
\* Series.sum() of column col
SumOf(rows, col) ==
    IF rows = <<>> THEN 0 ELSE rows[1][col] + SumOf(Tail(rows), col)

\* groupby('Ano', as_index=False).agg({'Creditos': 'sum'})
GroupCreditos(rows) ==
    LET keys == SortedSeq(Unique(rows, "Ano"))
        OfYear(y) == LET Is(row) == row.Ano = y IN SelectSeq(rows, Is)
    IN  [j \in 1..Len(keys) |->
            [Ano |-> keys[j], Creditos |-> SumOf(OfYear(keys[j]), "Creditos")]]

\* Mutant of CumSum: the year's own credits, no running sum.
CumSum_NoRunning(groups, j) == groups[j].Creditos

\* Series.cumsum() of Creditos, at position j
CumSum(groups, j) == SumOf(SubSeq(groups, 1, j), "Creditos")

\* round(n / d) to an integer, halves to the even neighbour (numpy's round), d > 0
RoundHalfEven(n, d) ==
    LET q == n \div d
        r == n % d
    IN  IF 2 * r < d THEN q
        ELSE IF 2 * r > d THEN q + 1
        ELSE IF q % 2 = 0 THEN q ELSE q + 1

\* (acumulado / total * 100).round(2), in hundredths; pandas divides by zero
\* without raising: 0/0 is NaN, x/0 is +-inf.
PctAcumulado(acumulado, total) ==
    IF total = 0
    THEN IF acumulado = 0 THEN NaN ELSE IF acumulado > 0 THEN PosInf ELSE NegInf
    ELSE IF total > 0 THEN Num(RoundHalfEven(acumulado * 10000, total))
    ELSE Num(RoundHalfEven(-(acumulado * 10000), -total))

\* df_acumulado with its Acumulado and '% Acumulado' columns
Acumulado(rows) ==
    LET groups == GroupCreditos(rows)
        total == SumOf(groups, "Creditos")
    IN  [j \in 1..Len(groups) |->
            [Ano |-> groups[j].Ano, Creditos |-> groups[j].Creditos,
             Acumulado |-> CumSum(groups, j),
             Pct |-> PctAcumulado(CumSum(groups, j), total)]]

\* (Nota * Creditos).sum()
RECURSIVE SumNotaCreditos(_)
SumNotaCreditos(rows) ==
    IF rows = <<>> THEN 0
    ELSE rows[1].Nota * rows[1].Creditos + SumNotaCreditos(Tail(rows))

\* ... / total_creditos if total_creditos > 0 else 0
Ira(rows, total) ==
    IF total > 0 THEN [num |-> SumNotaCreditos(rows), den |-> total]
    ELSE [num |-> 0, den |-> 1]

TopN == 10

\* Mutant of FirstLargest: among equal grades the last row is taken first.
LastLargest(rows) ==
    CHOOSE i \in 1..Len(rows) :
        /\ \A j \in 1..Len(rows) : rows[j].Nota <= rows[i].Nota
        /\ \A j \in (i + 1)..Len(rows) : rows[j].Nota < rows[i].Nota

\* The position, in rows, of the row nlargest takes next: the first row
\* (keep='first') with the largest Nota.
FirstLargest(rows) ==
    CHOOSE i \in 1..Len(rows) :
        /\ \A j \in 1..Len(rows) : rows[j].Nota <= rows[i].Nota
        /\ \A j \in 1..(i - 1) : rows[j].Nota < rows[i].Nota

RECURSIVE NLargest(_, _)
\* DataFrame.nlargest(n, 'Nota'), keep='first': the n rows with the largest
\* Nota, largest first, equal values in the frame's order (pandas' contract
\* for keep='first'; the library itself is not part of the repository).
NLargest(n, rows) ==
    IF n <= 0 \/ rows = <<>> THEN <<>>
    ELSE LET i == FirstLargest(rows)
         IN  <<rows[i]>> \o
             NLargest(n - 1, SubSeq(rows, 1, i - 1) \o SubSeq(rows, i + 1, Len(rows)))

\* [['Disciplina', 'Nota', 'Creditos', 'Area']]
TopColumns(row) ==
    [index |-> row.index, Disciplina |-> row.Disciplina, Nota |-> row.Nota,
     Creditos |-> row.Creditos, Area |-> row.Area]

TopDisciplinas(rows) ==
    LET top == NLargest(TopN, rows) IN [i \in 1..Len(top) |-> TopColumns(top[i])]

\* The body of "with tab1" for the frame d and the selections a, s.
Tab1(d, a, s) ==
    LET filtered_df == Filter(d, a, s)
        acc == Acumulado(filtered_df)
        total == SumOf(acc, "Creditos")
    IN  /\ anos' = a
        /\ areas' = s
        /\ IF d = <<>>
           THEN /\ view' = "no_data"
                /\ df_acumulado' = <<>>
                /\ total_creditos' = 0
                /\ ira' = Ira(<<>>, 0)
                /\ top_disciplinas' = <<>>
           ELSE IF filtered_df = <<>>
           THEN /\ view' = "no_match"
                /\ df_acumulado' = <<>>
                /\ total_creditos' = 0
                /\ ira' = Ira(<<>>, 0)
                /\ top_disciplinas' = <<>>
           ELSE /\ view' = "shown"
                /\ df_acumulado' = acc
                /\ total_creditos' = total
                /\ ira' = Ira(filtered_df, total)
                /\ top_disciplinas' = TopDisciplinas(filtered_df)

----------------------------------------------------------------------------
(* Tab 2: the competency assessment *)

\* The benchmark table of create_career_assessment, values in tenths.
benchmark ==
    [Competencia |->
        << "Engenharia Elétrica", "Power Line Communication", "Gestão de Projetos",
           "Atendimento ao Cliente", "Análise de Dados", "Vendas Técnicas",
           "Automação Industrial", "Liderança de Equipes",
           "Sustentabilidade Energética", "Transformação Digital" >>,
     Benchmark |-> <<38, 32, 41, 35, 39, 34, 40, 37, 42, 36>>]

\* The dict main() puts in st.session_state.ratings, in insertion order.
InitialRatings ==
    << [k |-> "Engenharia Elétrica", v |-> 30],
       [k |-> "Power Line Communication", v |-> 30],
       [k |-> "Gestão de Projetos", v |-> 30],
       [k |-> "Atendimento ao Cliente", v |-> 30],
       [k |-> "Análise de Dados", v |-> 30],
       [k |-> "Vendas Técnicas", v |-> 30],
       [k |-> "Automação Industrial", v |-> 30],
       [k |-> "Liderança de Equipes", v |-> 30],
       [k |-> "Sustentabilidade Energética", v |-> 30],
       [k |-> "Transformação Digital", v |-> 30] >>

SliderMin == 0
SliderMax == 50
SliderStep == 5

\* The values a slider can take: min_value, max_value, step.
SliderValues == {x \in SliderMin..SliderMax : (x - SliderMin) % SliderStep = 0}

\* The value of r for key c (r[c] of the dict).
ValueOf(r, c) == LET i == CHOOSE j \in 1..Len(r) : r[j].k = c IN r[i].v

\* The widgets' state after the sliders are drawn: a slider seen for the
\* first time takes value=ratings[competence], a known one keeps its state.
DrawSliders(r, sl) ==
    [c \in {r[i].k : i \in 1..Len(r)} |->
        IF c \in DOMAIN sl THEN sl[c] ELSE ValueOf(r, c)]

\* Mutant of WriteBack: every slider shares the first slider's widget key.
WriteBack_SharedKey(r, sl) == [i \in 1..Len(r) |-> [k |-> r[i].k, v |-> sl[r[1].k]]]

\* The for loop of main(): every slider's value is written to its key;
\* assigning to an existing key keeps the dict's order.
WriteBack(r, sl) == [i \in 1..Len(r) |-> [k |-> r[i].k, v |-> sl[r[i].k]]]

\* The value paired with the i-th key of ratings: 'Média de Mercado' is
\* benchmark['Benchmark'], taken by position.
MediaDeMercado(i) == benchmark.Benchmark[i]

\* pd.DataFrame({...}) of create_career_assessment: columns of unequal
\* length raise ValueError.
create_career_assessment(r) ==
    IF Len(r) # Len(benchmark.Benchmark)
    THEN [error |-> TRUE, rows |-> <<>>]
    ELSE [error |-> FALSE,
          rows |-> [i \in 1..Len(r) |->
                      [Competencia |-> r[i].k, SuaAvaliacao |-> r[i].v,
                       MediaDeMercado |-> MediaDeMercado(i)]]]

\* df_comparison['Diferencial'] = 'Sua Avaliação' - 'Média de Mercado'
WithDiferencial(rows) ==
    [i \in 1..Len(rows) |->
        [Competencia |-> rows[i].Competencia, SuaAvaliacao |-> rows[i].SuaAvaliacao,
         MediaDeMercado |-> rows[i].MediaDeMercado,
         Diferencial |-> rows[i].SuaAvaliacao - rows[i].MediaDeMercado]]

StrengthThreshold == 5

\* Mutant of IsStrength: a differential of exactly 0.5 counts.
IsStrength_Inclusive(row) == row.Diferencial >= StrengthThreshold

\* The mask df_comparison['Diferencial'] > 0.5, on one row
IsStrength(row) == row.Diferencial > StrengthThreshold

Strengths(rows) == SelectSeq(rows, IsStrength)

\* Lines 209-220 for the mapping r; an exception ends the run.
Assess(r) ==
    LET res == create_career_assessment(r)
    IN  IF res.error
        THEN /\ df_comparison' = res
             /\ strengths' = <<>>
        ELSE /\ df_comparison' = [error |-> FALSE, rows |-> WithDiferencial(res.rows)]
             /\ strengths' = Strengths(WithDiferencial(res.rows))

\* The body of "with tab2" when the widgets' state is sl.
Tab2(sl) ==
    LET r0 == IF ratings = <<>> THEN InitialRatings ELSE ratings
        drawn == DrawSliders(r0, sl)
    IN  /\ sliders' = drawn
        /\ ratings' = WriteBack(r0, drawn)
        /\ Assess(WriteBack(r0, drawn))

----------------------------------------------------------------------------
(* The runs of main() *)

\* The first run of the script in a session: the multiselects default to
\* every year and every area.
FirstRun ==
    /\ ~started
    /\ started' = TRUE
    /\ LET d == load_data(csv_ok, raw)
       IN  /\ df' = d
           /\ Tab1(d, Unique(d, "Ano"), Unique(d, "Area"))
    /\ Tab2(sliders)
    /\ moves' = moves
    /\ UNCHANGED <<csv_ok, raw>>

\* The user changes the years multiselect; the script reruns.
SelectAnos ==
    /\ started
    /\ df # <<>>
    /\ \E a \in SUBSET Unique(df, "Ano") :
          /\ a # anos
          /\ Tab1(df, a, areas)
    /\ Tab2(sliders)
    /\ UNCHANGED <<started, csv_ok, raw, df, moves>>

\* The user changes the areas multiselect; the script reruns.
SelectAreas ==
    /\ started
    /\ df # <<>>
    /\ \E s \in SUBSET Unique(df, "Area") :
          /\ s # areas
          /\ Tab1(df, anos, s)
    /\ Tab2(sliders)
    /\ UNCHANGED <<started, csv_ok, raw, df, moves>>

MaxMoves == 2

\* The user moves one slider; the script reruns.
MoveSlider ==
    /\ started
    /\ moves < MaxMoves
    /\ \E c \in DOMAIN sliders, x \in SliderValues :
          /\ x # sliders[c]
          /\ Tab2([sliders EXCEPT ![c] = x])
    /\ moves' = moves + 1
    /\ Tab1(df, anos, areas)
    /\ UNCHANGED <<started, csv_ok, raw, df>>

\* A caller passes the mapping held in ratings to the comparison
\* (create_career_assessment, then the differential and the strengths).
CallCompare ==
    /\ ~started
    /\ started' = TRUE
    /\ Assess(ratings)
    /\ UNCHANGED <<tab1vars, ratings, sliders, moves>>

----------------------------------------------------------------------------
(* Inputs and specifications *)

SeqsUpTo(S, n) == UNION {[1..m -> S] : m \in 0..n}

\* Tab 2 before the first run: 'ratings' is not in st.session_state.
Tab2Idle ==
    /\ ratings = <<>>
    /\ sliders = <<>>
    /\ moves = 0
    /\ df_comparison = [error |-> FALSE, rows |-> <<>>]
    /\ strengths = <<>>

\* Tab 1 before the first run.
Tab1Idle ==
    /\ df = <<>>
    /\ anos = {}
    /\ areas = {}
    /\ view = "none"
    /\ df_acumulado = <<>>
    /\ total_creditos = 0
    /\ ira = Ira(<<>>, 0)
    /\ top_disciplinas = <<>>

\* A session over a transcript with at most n rows drawn from Rows, or over
\* a file that cannot be loaded.
InitOver(Rows, n) ==
    /\ started = FALSE
    /\ \/ csv_ok = TRUE /\ raw \in SeqsUpTo(Rows, n)
       \/ csv_ok = FALSE /\ raw = <<>>
    /\ Tab1Idle
    /\ Tab2Idle

NextTab1 == FirstRun \/ SelectAnos \/ SelectAreas

NextTab2 == FirstRun \/ MoveSlider

MAT1 == <<"M", "A", "T", "1">>
FIS1 == <<"F", "I", "S", "1">>
Geral == <<"G", "e", "r", "a", "l">>

(* Aggregation: rows that differ in area, grade, hours and year. *)
MaxRecs == 2

\* <<Nota, Horas>>: grade 8 with 2 credits, grade 6 with 4, grade 6 with none.
NotaHoras == {<<8, 30>>, <<6, 60>>, <<6, 14>>}

AggRows ==
    {[Codigo |-> c, Disciplina |-> Geral, Nota |-> Num(p[1]), Horas |-> Num(p[2]),
      Ano |-> y] : c \in {MAT1, FIS1}, p \in NotaHoras, y \in {2019, 2020, 2021}}

Init == InitOver(AggRows, MaxRecs)

Spec == Init /\ [][NextTab1]_vars

(* Classification: codes and discipline names around the keys of mapeamento. *)
MaxClsRecs == 1

Codigos ==
    { <<"M", "A", "T", "1", "0", "1">>,
      <<"m", "a", "t", "1">>,
      <<"F", "I", "S", "1">>,
      <<"C", "E", "L", "1">>,
      <<"E", "N", "E", "1">>,
      <<"X", "Y", "Z">>,
      <<"X", "M", "A", "T">>,
      MissingText }

Disciplinas ==
    { <<"C", "á", "l", "c", "u", "l", "o", " ", "I">>,
      <<"F", "í", "s", "i", "c", "a">>,
      <<"L", "a", "b", "o", "r", "a", "t", "ó", "r", "i", "o">>,
      <<"M", "a", "t", "e", "m", "á", "t", "i", "c", "a">>,
      <<"E", "n", "e", "r", "g", "i", "a">>,
      <<"R", "e", "d", "e", "s">>,
      <<"l", "a", "b">>,
      MissingText }

ClsRows ==
    [Codigo : Codigos, Disciplina : Disciplinas, Nota : {Num(7)},
     Horas : {Num(30)}, Ano : {2020}]

InitClassify == InitOver(ClsRows, MaxClsRecs)

SpecClassify == InitClassify /\ [][NextTab1]_vars

(* Credits: numeric cells, parsable or not. *)
MaxHorasRecs == 2

HorasCells == {Num(0), Num(14), Num(15), Num(29), Num(44), Num(45), Text, NaN}

HorasRows ==
    [Codigo : {MAT1}, Disciplina : {Geral}, Nota : {Num(7), Text, NaN},
     Horas : HorasCells, Ano : {2020}]

InitCredits == InitOver(HorasRows, MaxHorasRecs)

SpecCredits == InitCredits /\ [][NextTab1]_vars

(* Top 10: up to MaxTopRecs rows of one year and area; the i-th row's grade *)
(* is 9 or one of 6, 7, 8 by position, so grades repeat and differ.        *)
MaxTopRecs == 11

TopRow(nota) ==
    [Codigo |-> MAT1, Disciplina |-> Geral, Nota |-> Num(nota),
     Horas |-> Num(30), Ano |-> 2020]

InitTop ==
    /\ started = FALSE
    /\ csv_ok = TRUE
    /\ \E n \in 0..MaxTopRecs :
          \E f \in [1..n -> {0, 1}] :
             raw = [i \in 1..n |->
                       TopRow(IF f[i] = 1 THEN 9 ELSE 6 + (i % 3))]
    /\ Tab1Idle
    /\ Tab2Idle

SpecTop == InitTop /\ [][NextTab1]_vars

(* The assessment session: a session whose transcript cannot be loaded. *)
InitSession ==
    /\ started = FALSE
    /\ csv_ok = FALSE
    /\ raw = <<>>
    /\ Tab1Idle
    /\ Tab2Idle

SpecSession == InitSession /\ [][NextTab2]_vars

(* The comparison called with a mapping of the caller's choice. *)
Names == benchmark.Competencia

Outra == "Inglês Técnico"

\* Names with positions i and j exchanged.
Swapped(i, j) ==
    [p \in 1..Len(Names) |->
        IF p = i THEN Names[j] ELSE IF p = j THEN Names[i] ELSE Names[p]]

\* The key orders offered: the benchmark's own order, two keys exchanged,
\* one key replaced by a name the benchmark lacks, a key missing, a key added.
KeyOrders ==
    {Names}
    \cup {Swapped(i, i + 1) : i \in 1..(Len(Names) - 1)}
    \cup {Swapped(1, Len(Names))}
    \cup {[Names EXCEPT ![i] = Outra] : i \in 1..Len(Names)}
    \cup {SubSeq(Names, 1, Len(Names) - 1)}
    \cup {Names \o <<Outra>>}

\* The self-ratings offered, by position: 3.0 or 4.5 each, or all 3.8, or all 4.0.
ValueMaps(n) ==
    [1..n -> {30, 45}] \cup {[i \in 1..n |-> 38], [i \in 1..n |-> 40]}

InitCompare ==
    /\ started = FALSE
    /\ csv_ok = FALSE
    /\ raw = <<>>
    /\ Tab1Idle
    /\ \E ks \in KeyOrders :
          \E vs \in ValueMaps(Len(ks)) :
             ratings = [i \in 1..Len(ks) |-> [k |-> ks[i], v |-> vs[i]]]
    /\ sliders = <<>>
    /\ moves = 0
    /\ df_comparison = [error |-> FALSE, rows |-> <<>>]
    /\ strengths = <<>>

SpecCompare == InitCompare /\ [][CallCompare]_vars

----------------------------------------------------------------------------
(* Properties *)

\* The rows of df the current selection keeps, by position in df.
Kept == {i \in 1..Len(df) : df[i].Ano \in anos /\ df[i].Area \in areas}

RECURSIVE CreditSum(_)
\* The credits of the rows of df at the positions I, added up.
CreditSum(I) ==
    IF I = {} THEN 0
    ELSE LET i == CHOOSE x \in I : TRUE IN df[i].Creditos + CreditSum(I \ {i})

RECURSIVE GradePoints(_)
\* Nota * Creditos of the rows of df at the positions I, added up.
GradePoints(I) ==
    IF I = {} THEN 0
    ELSE LET i == CHOOSE x \in I : TRUE
         IN  df[i].Nota * df[i].Creditos + GradePoints(I \ {i})

(* ---- C2 ---- *)

\* The rule list as the claim words it: the four code prefixes, then the
\* three name keywords.
RuleListArea(codigo, disciplina) ==
    IF StartsWith(codigo, <<"M", "A", "T">>) THEN "Matemática"
    ELSE IF StartsWith(codigo, <<"F", "I", "S">>) THEN "Física"
    ELSE IF StartsWith(codigo, <<"C", "E", "L">>) THEN "Eletrônica"
    ELSE IF StartsWith(codigo, <<"E", "N", "E">>) THEN "Sistemas de Potência"
    ELSE IF Contains(<<"C", "Á", "L", "C", "U", "L", "O">>, disciplina) THEN "Matemática"
    ELSE IF Contains(<<"F", "Í", "S", "I", "C", "A">>, disciplina) THEN "Física"
    ELSE IF Contains(<<"L", "A", "B", "O", "R", "A", "T", "Ó", "R", "I", "O">>, disciplina)
    THEN "Práticas"
    ELSE "Outras"

\* C2 as claimed: every loaded row's Area is what the rule list of four code
\* prefixes and three name keywords gives, Outras when none of them applies.
C2_AsClaimed ==
    started =>
        \A i \in 1..Len(df) :
            df[i].Area = RuleListArea(Upper(Str(raw[i].Codigo)),
                                      Upper(Str(raw[i].Disciplina)))

Areas == {"Matemática", "Física", "Eletrônica", "Sistemas de Potência", "Práticas",
          "Outras"}

\* The keys of mapeamento that the upper-cased code starts with or the
\* upper-cased name contains.
Hits(r) ==
    {j \in 1..Len(mapeamento) :
        \/ StartsWith(Upper(Str(r.Codigo)), mapeamento[j].key)
        \/ Contains(mapeamento[j].key, Upper(Str(r.Disciplina)))}

\* C2 as amended: classification is total; each of the seven keys, in the
\* order MAT, FIS, CEL, ENE, CÁLCULO, FÍSICA, LABORATÓRIO, applies when the
\* upper-cased Code starts with it or the upper-cased DisciplineName contains
\* it; the first key that applies gives the Area, Outras when none applies;
\* a Code starting with MAT gives Matemática whatever the name.
C2_Classify ==
    started =>
        \A i \in 1..Len(df) :
            /\ df[i].Area \in Areas
            /\ Hits(raw[i]) = {} => df[i].Area = "Outras"
            /\ \A j \in Hits(raw[i]) :
                  (\A h \in Hits(raw[i]) : j <= h) => df[i].Area = mapeamento[j].value
            /\ StartsWith(Upper(Str(raw[i].Codigo)), <<"M", "A", "T">>)
                  => df[i].Area = "Matemática"

\* A row matched through its name by a code key: code XYZ, name "Energia".
C2_Witness ==
    /\ started
    /\ Len(df) = 1
    /\ raw[1].Codigo = <<"X", "Y", "Z">>
    /\ raw[1].Disciplina = <<"E", "n", "e", "r", "g", "i", "a">>
    /\ df[1].Area = "Sistemas de Potência"

(* ---- C9 ---- *)

\* The hours of a raw row as load_data reads them: 0 when the cell is
\* missing or does not parse.
HorasLidas(r) == IF r.Horas.k = "num" THEN r.Horas.v ELSE 0

\* C9: loading keeps one row per input row, in order, and for hours h >= 0
\* (0 when the cell is missing or unparsable) Creditos is the integer c >= 0
\* with 15c <= h < 15(c+1): 0 below 15, 1 for 15, 2 for 44.
C9_Credits ==
    (started /\ csv_ok) =>
        /\ Len(df) = Len(raw)
        /\ \A i \in 1..Len(df) :
              LET h == HorasLidas(raw[i])
                  c == df[i].Creditos
              IN  /\ df[i].Codigo = raw[i].Codigo
                  /\ df[i].Ano = raw[i].Ano
                  /\ h >= 0 =>
                        /\ c \in Nat
                        /\ 15 * c <= h
                        /\ h < 15 * (c + 1)
                        /\ (h < 15 => c = 0)
                        /\ (h = 15 => c = 1)
                        /\ (h = 44 => c = 2)

\* Two rows loaded: 44 hours giving 2 credits and an unparsable cell giving 0.
C9_Witness ==
    /\ started
    /\ Len(df) = 2
    /\ raw[1].Horas = Num(44) /\ df[1].Creditos = 2
    /\ raw[2].Horas = Text /\ df[2].Creditos = 0

(* ---- C4 ---- *)

\* C4: when rows are kept but their credits add up to 0, every year's
\* percentage is the number 0.0 (no division by zero takes place).
C4_ZeroTotalGivesZeroPct ==
    (view = "shown" /\ total_creditos = 0) =>
        \A j \in 1..Len(df_acumulado) : df_acumulado[j].Pct = Num(0)

(* ---- C5 ---- *)

\* C5: the IRA shown is sum(Nota * Creditos) / sum(Creditos) over exactly the
\* rows whose Ano and Area are selected, and 0 when those credits add up to 0.
C5_Ira ==
    view = "shown" =>
        /\ ira.den # 0
        /\ IF CreditSum(Kept) = 0
           THEN ira.num = 0
           ELSE ira.num * CreditSum(Kept) = GradePoints(Kept) * ira.den

\* (Nota 8, 2 credits) and (Nota 6, 4 credits) kept: the IRA is 40/6.
C5_Witness ==
    /\ view = "shown"
    /\ Len(df) = 2
    /\ Kept = {1, 2}
    /\ df[1].Nota = 8 /\ df[1].Creditos = 2
    /\ df[2].Nota = 6 /\ df[2].Creditos = 4
    /\ ira.num * 6 = 40 * ira.den

(* ---- C6 ---- *)

\* C6: with total credits > 0 the cumulative frame has one entry per
\* distinct kept year, ascending; each Acumulado is the credits of that year
\* and the earlier ones; it never decreases; the last Acumulado is the total
\* and the last percentage 100.00; each percentage is 100 * Acumulado / total
\* to two places; [10, 20, 30] of 60 give 16.67, 50.00, 100.00.
C6_Cumulative ==
    (view = "shown" /\ total_creditos > 0) =>
        LET n == Len(df_acumulado) IN
        /\ {df_acumulado[j].Ano : j \in 1..n} = {df[i].Ano : i \in Kept}
        /\ \A j \in 1..(n - 1) : df_acumulado[j].Ano < df_acumulado[j + 1].Ano
        /\ \A j \in 1..n :
              /\ df_acumulado[j].Acumulado
                    = CreditSum({i \in Kept : df[i].Ano <= df_acumulado[j].Ano})
              /\ df_acumulado[j].Pct.k = "num"
              /\ 2 * (df_acumulado[j].Pct.v * total_creditos
                         - 10000 * df_acumulado[j].Acumulado) <= total_creditos
              /\ 2 * (10000 * df_acumulado[j].Acumulado
                         - df_acumulado[j].Pct.v * total_creditos) <= total_creditos
        /\ \A j \in 1..(n - 1) :
              df_acumulado[j].Acumulado <= df_acumulado[j + 1].Acumulado
        /\ total_creditos = CreditSum(Kept)
        /\ n >= 1
        /\ df_acumulado[n].Acumulado = total_creditos
        /\ df_acumulado[n].Pct = Num(10000)
        /\ PctAcumulado(10, 60) = Num(1667)
        /\ PctAcumulado(30, 60) = Num(5000)
        /\ PctAcumulado(60, 60) = Num(10000)

\* Two years, the later one first in the file: 2 then 4 credits, 33.33 %
\* then 100 %.
C6_Witness ==
    /\ view = "shown"
    /\ Len(df) = 2
    /\ df[1].Ano > df[2].Ano
    /\ Len(df_acumulado) = 2
    /\ df_acumulado[1].Acumulado = 2
    /\ df_acumulado[1].Pct = Num(3333)
    /\ df_acumulado[2].Acumulado = 6

(* ---- C7 ---- *)

\* C7: the Top 10 table holds min(10, rows kept) distinct kept rows, by
\* Nota descending, rows of equal Nota in the frame's order, and no row left
\* out has a Nota greater than a row in the table.
C7_TopTen ==
    view = "shown" =>
        LET top == top_disciplinas
            n == Len(top)
            In == {top[j].index + 1 : j \in 1..n}
        IN  /\ n = IF Cardinality(Kept) < 10 THEN Cardinality(Kept) ELSE 10
            /\ In \subseteq Kept
            /\ Cardinality(In) = n
            /\ \A j \in 1..n : top[j].Nota = df[top[j].index + 1].Nota
            /\ \A j \in 1..(n - 1) :
                  \/ top[j].Nota > top[j + 1].Nota
                  \/ top[j].Nota = top[j + 1].Nota /\ top[j].index < top[j + 1].index
            /\ \A i \in Kept \ In : \A j \in 1..n : df[i].Nota <= top[j].Nota

\* Eleven rows kept, ten shown, equal grades among those shown, and the row
\* left out ties with the last one shown.
C7_Witness ==
    /\ view = "shown"
    /\ Cardinality(Kept) = 11
    /\ Len(top_disciplinas) = 10
    /\ top_disciplinas[1].Nota = top_disciplinas[2].Nota
    /\ top_disciplinas[1].Nota > top_disciplinas[10].Nota
    /\ top_disciplinas[1].index > top_disciplinas[10].index
    /\ \E i \in Kept :
          /\ \A j \in 1..10 : top_disciplinas[j].index # i - 1
          /\ df[i].Nota = top_disciplinas[10].Nota

(* ---- C8 ---- *)

\* The rows of the comparison table whose self-rating exceeds the market
\* average by more than 0.5, by position.
Above == {i \in 1..Len(df_comparison.rows) :
             df_comparison.rows[i].SuaAvaliacao
                - df_comparison.rows[i].MediaDeMercado > 5}

\* C8: the strengths are exactly the rows of the comparison table with
\* SelfRating - MarketAverage > 0.5, in the table's order; a differential of
\* exactly 0.5 or less is left out.
C8_Strengths ==
    (started /\ ~df_comparison.error) =>
        /\ Len(strengths) = Cardinality(Above)
        /\ \A j \in 1..Len(strengths) :
              \E i \in Above :
                 /\ strengths[j] = df_comparison.rows[i]
                 /\ Cardinality({h \in Above : h < i}) = j - 1
        /\ \A i \in 1..Len(df_comparison.rows) :
              df_comparison.rows[i].Diferencial
                 = df_comparison.rows[i].SuaAvaliacao
                      - df_comparison.rows[i].MediaDeMercado

\* 4.5 against 3.8 is a strength, 4.5 against 4.0 (exactly 0.5) is not, and
\* a second strength follows the first.
C8_Witness ==
    /\ started
    /\ ~df_comparison.error
    /\ ratings[1].k = "Engenharia Elétrica"
    /\ Len(strengths) = 2
    /\ strengths[1].SuaAvaliacao = 45 /\ strengths[1].MediaDeMercado = 38
    /\ strengths[2].MediaDeMercado = 35
    /\ df_comparison.rows[7].SuaAvaliacao = 45
    /\ df_comparison.rows[7].MediaDeMercado = 40

(* ---- C1, C3 ---- *)

\* The benchmark value of competency c.
BenchmarkOf(c) ==
    LET i == CHOOSE j \in 1..Len(benchmark.Competencia) : benchmark.Competencia[j] = c
    IN  benchmark.Benchmark[i]

Known == {benchmark.Competencia[j] : j \in 1..Len(benchmark.Competencia)}

\* C1: a mapping with a key that is no competency of the benchmark table
\* ends in an error and gives no comparison table, also when it has as many
\* keys as the table.
C1_UnknownKeyIsError ==
    (started /\ \E i \in 1..Len(ratings) : ratings[i].k \notin Known) =>
        /\ df_comparison.error
        /\ df_comparison.rows = <<>>

\* C3: for a mapping over the 10 competencies in any key order, the table
\* has one row per competency in the benchmark list's order and each row's
\* market average is the benchmark value of its own competency.
C3_RowsFollowBenchmark ==
    (started /\ Len(ratings) = Len(benchmark.Competencia)
             /\ {ratings[i].k : i \in 1..Len(ratings)} = Known) =>
        /\ ~df_comparison.error
        /\ Len(df_comparison.rows) = Len(benchmark.Competencia)
        /\ \A i \in 1..Len(df_comparison.rows) :
              /\ df_comparison.rows[i].Competencia = benchmark.Competencia[i]
              /\ df_comparison.rows[i].MediaDeMercado
                    = BenchmarkOf(df_comparison.rows[i].Competencia)

(* ---- C10 ---- *)

\* The session's ratings are the 10 competencies in the benchmark's order,
\* each a multiple of 0.5 in [0, 5], each paired with its own benchmark value.
RatingsInLockstep ==
    started =>
        /\ Len(ratings) = Len(benchmark.Competencia)
        /\ \A i \in 1..Len(ratings) :
              /\ ratings[i].k = benchmark.Competencia[i]
              /\ ratings[i].v \in 0..50
              /\ ratings[i].v % 5 = 0
        /\ ~df_comparison.error
        /\ Len(df_comparison.rows) = Len(ratings)
        /\ \A i \in 1..Len(df_comparison.rows) :
              /\ df_comparison.rows[i].Competencia = ratings[i].k
              /\ df_comparison.rows[i].SuaAvaliacao = ratings[i].v
              /\ df_comparison.rows[i].MediaDeMercado
                    = BenchmarkOf(df_comparison.rows[i].Competencia)

\* A rerun after one slider moved changes the rating of that competency
\* alone.
OneRatingChanges ==
    started =>
        Cardinality({i \in 1..Len(ratings) : ratings'[i] # ratings[i]}) <= 1

\* C10: in every session state the ratings keep the 10 competencies in the
\* benchmark's order with values that are multiples of 0.5 in [0, 5], paired
\* with their own benchmark values, and a slider update changes no other
\* competency's rating.
C10_Session == []RatingsInLockstep /\ [][OneRatingChanges]_vars

\* Two sliders moved, to the ends of the range; the others still at 3.0.
C10_Witness ==
    /\ started
    /\ moves = 2
    /\ ratings[2].v = 0
    /\ ratings[9].v = 50
    /\ ratings[1].v = 30
    /\ df_comparison.rows[9].MediaDeMercado = 42
    /\ Len(strengths) = 1

====
